---- MODULE Spec2Model ----
(***************************************************************************)
(* Multi-tenant isolation core of qtable-vendure (packages/qtable-saas):   *)
(* Tenant Directory, lifecycle state machine, tenant resolver with its     *)
(* cache, the request gate (Stage A middleware, TenantGuard,               *)
(* DefaultChannelGuard) and the audit log.                                 *)
(*                                                                         *)
(* Specifications:                                                         *)
(*   Spec      lifecycle calls run one after the other (each call atomic)  *)
(*   SpecDom   domain management calls run one after the other             *)
(*   SpecConc  two changeStatus calls with their read and write steps      *)
(*             interleaved                                                 *)
(*   SpecConcDom  two addDomain / provision calls with their lookup and    *)
(*             insert steps interleaved                                    *)
(*   SpecGate  HTTP requests through Stage A, authentication and the two   *)
(*             guards, while tenants change status and time passes         *)
(***************************************************************************)
EXTENDS Integers, Sequences, FiniteSets, TLC

(***************************************************************************)
(* Bounds of the model.                                                    *)
(***************************************************************************)
MaxTicks == 3        \* clock advances per behaviour
MaxAudit == 6        \* audit rows per behaviour
MaxDomainId == 3
MaxPurgeAudit == 14  \* AuditLog rows per behaviour of the purge schedule
MaxPeriods == 5      \* grace periods that pass per behaviour of the purge schedule     \* TenantDomain rows ever inserted

(***************************************************************************)
(* Values.                                                                 *)
(***************************************************************************)
\* JavaScript's undefined; String(undefined) is "undefined".
Undefined == "undefined"

\* A null timestamp column (suspendedAt, deletedAt) and a null id column.
NullTime == -1
NoId == 0

\* enum TenantStatus: seven members.
REQUESTED == "REQUESTED"
PROVISIONING == "PROVISIONING"
TRIAL == "TRIAL"
ACTIVE == "ACTIVE"
SUSPENDED == "SUSPENDED"
PENDING_DELETION == "PENDING_DELETION"
DELETED == "DELETED"
TenantStatus ==
    {REQUESTED, PROVISIONING, TRIAL, ACTIVE, SUSPENDED, PENDING_DELETION, DELETED}

\* The expression TenantStatus.PURGED, used by validateStatusTransition and by
\* the purge job: the enum declares no such member (nor does the GraphQL enum),
\* so the property access evaluates to undefined.
PURGED == Undefined

\* What a caller of changeStatus can pass as newStatus.
StatusArgs == TenantStatus \cup {PURGED}

\* Slugs and domain strings callers supply.  A string is abstracted to its
\* lower-case text, whether it contains upper-case letters, and whether it
\* carries a ":port" suffix; two strings are equal iff the three agree.
Slugs == {"alpha", "beta"}
Str(n, u, p) == [name |-> n, upper |-> u, port |-> p]
DomainArgs == {Str("alpha.shop", FALSE, FALSE), Str("beta.shop", FALSE, FALSE)}
\* The domain a tenant is provisioned with when the caller has no choice.
ShopDomain(slug) == Str(IF slug = "alpha" THEN "alpha.shop" ELSE "beta.shop", FALSE, FALSE)

\* String.prototype.toLowerCase and split(':')[0] on that abstraction.
toLowerCase(s) == [s EXCEPT !.upper = FALSE]
StripPort(s) == [s EXCEPT !.port = FALSE]

\* Channel ids; the platform's default channel is the first row.
DefaultChannelId == 1
DefaultToken == <<"default">>
NoToken == <<>>

\* token: `tenant-${input.slug}-${this.generateToken()}`; the random part is
\* taken to be fresh, so the token is determined by the channel it was made for.
MakeToken(slug, channelId) == <<"tenant", slug, channelId>>

\* Request contexts of service callers: the platform operator's Admin API
\* context, and RequestContext.empty().
SuperAdminUser == "superadmin"
NoUser == "anonymous"
AdminCtx == [user |-> SuperAdminUser, channel |-> DefaultChannelId]

VARIABLES
    tenants,      \* Tenant table: sequence of rows, row i has id i
    domains,      \* TenantDomain table: set of rows
    nextDomainId, \* TenantDomain id sequence
    channels,     \* Channel table (collaborator): sequence of rows, row i has id i
    sellers,      \* Seller table (collaborator): set of names
    roles,        \* Role table (collaborator): set of [code, channels]
    admins,       \* Administrator table (collaborator): set of [email, role]
    auditLog,     \* AuditLog table: sequence of rows in insertion order
    now,          \* Date.now(), in seconds
    result,       \* outcome of the last service call
    cs,           \* changeStatus calls in flight (SpecConc)
    ad,           \* addDomain calls in flight (SpecConc)
    job,          \* the purge job in flight (SpecJob)
    cache,        \* TenantResolutionService.cache: set of [key, result, expiresAt]
    req           \* the HTTP request in flight (SpecGate)

dirVars == <<tenants, domains, nextDomainId, channels, sellers, roles, admins>>
procVars == <<cs, ad, job>>
gateVars == <<cache, req>>
vars == <<dirVars, auditLog, now, result, procVars, gateVars>>

(***************************************************************************)
(* Tenant Directory: lookups.                                              *)
(***************************************************************************)
TenantIds == 1..Len(tenants)
HasTenant(id) == id \in TenantIds

\* findBySlug / the slug lookup of create()
SlugTakenNever(slug) == FALSE
SlugTaken(slug) == \E i \in TenantIds : tenants[i].slug = slug

\* channelService.findOne
HasChannel(cid) == cid \in 1..Len(channels)

\* findOne({ where: { domain } }) of addDomain
DomainTaken(d) == \E r \in domains : r.domain = d

(***************************************************************************)
(* AuditService.log: one row per call.                                     *)
(***************************************************************************)
AuditEntry(ctx, action, severity, tenantId, metadata) ==
    [action |-> action, severity |-> severity, userId |-> ctx.user,
     channelId |-> ctx.channel, tenantId |-> tenantId, metadata |-> metadata]

\* Subscriber of TenantStatusChangedEvent (AuditService.onModuleInit).
StatusChangedEntry(ctx, tid, from, to) ==
    AuditEntry(ctx, "TENANT_STATUS_CHANGED",
               IF to = SUSPENDED THEN "WARN" ELSE "INFO",
               tid, [from |-> from, to |-> to])

\* Subscriber of TenantCreatedEvent.
TenantCreatedEntry(ctx, tid, slug) ==
    AuditEntry(ctx, "TENANT_CREATED", "INFO", tid, [slug |-> slug])

(***************************************************************************)
(* TenantService.validateStatusTransition.                                 *)
(***************************************************************************)
\* The table `allowed`; the key of the last row is String(TenantStatus.PURGED).
AllowedRowNoReactivation(from) ==
    CASE from = REQUESTED -> <<PROVISIONING>>
      [] from = PROVISIONING -> <<TRIAL, ACTIVE>>
      [] from = TRIAL -> <<ACTIVE, SUSPENDED, PENDING_DELETION>>
      [] from = ACTIVE -> <<SUSPENDED, PENDING_DELETION>>
      [] from = SUSPENDED -> <<PENDING_DELETION>>
      [] from = PENDING_DELETION -> <<DELETED>>
      [] from = DELETED -> <<PURGED>>
      [] from = PURGED -> <<>>
AllowedRow(from) ==
    CASE from = REQUESTED -> <<PROVISIONING>>
      [] from = PROVISIONING -> <<TRIAL, ACTIVE>>
      [] from = TRIAL -> <<ACTIVE, SUSPENDED, PENDING_DELETION>>
      [] from = ACTIVE -> <<SUSPENDED, PENDING_DELETION>>
      [] from = SUSPENDED -> <<ACTIVE, PENDING_DELETION>>
      [] from = PENDING_DELETION -> <<ACTIVE, DELETED>>
      [] from = DELETED -> <<PURGED>>
      [] from = PURGED -> <<>>

\* allowed[from]?.includes(to)
IsAllowed(from, to) ==
    \E i \in 1..Len(AllowedRow(from)) : AllowedRow(from)[i] = to

\* allowed[from].join(', ') || 'none': join renders an undefined element as
\* the empty string, and an empty result is replaced by 'none'.
AllowedText(from) ==
    LET shown == SelectSeq(AllowedRow(from), LAMBDA x : x # Undefined)
    IN  IF shown = <<>> THEN <<"none">> ELSE shown

(***************************************************************************)
(* Outcome of a service call, as its caller sees it.                       *)
(***************************************************************************)
NoResult ==
    [op |-> "none", ok |-> TRUE, error |-> "", id |-> NoId,
     from |-> "", to |-> "", allowed |-> <<>>, channelToken |-> NoToken,
     failed |-> <<>>, events |-> <<>>]
Ok(op, id) == [NoResult EXCEPT !.op = op, !.id = id]
Err(op, id, error) == [NoResult EXCEPT !.op = op, !.ok = FALSE, !.id = id, !.error = error]

\* UserInputError(`Invalid status transition: ${from} -> ${to}. Allowed: ...`)
InvalidTransition(id, from, to) ==
    [op |-> "changeStatus", ok |-> FALSE, error |-> "Invalid status transition",
     id |-> id, from |-> from, to |-> to, allowed |-> AllowedText(from),
     channelToken |-> NoToken, failed |-> <<>>, events |-> <<>>]

(***************************************************************************)
(* TenantService.changeStatus, lines 173-186: the entity after the         *)
(* assignments, and what repository.save writes.                           *)
(***************************************************************************)
TransitionedStamping(t, newStatus, at) ==
    [t EXCEPT !.status = newStatus, !.suspendedAt = at, !.deletedAt = at]
Transitioned(t, newStatus, at) ==
    [t EXCEPT
       !.status = newStatus,
       !.suspendedAt = IF newStatus = SUSPENDED THEN at
                       ELSE IF newStatus \in {ACTIVE, TRIAL} THEN NullTime
                       ELSE @,
       !.deletedAt = IF newStatus = PENDING_DELETION THEN at
                     ELSE IF newStatus \in {ACTIVE, TRIAL} THEN NullTime
                     ELSE @]

\* repository.save(entity) on an existing row: every column of the entity is
\* written, except that a property whose value is undefined is skipped.
Save(row, entity) ==
    [entity EXCEPT !.status = IF entity.status = Undefined THEN row.status ELSE @]

(***************************************************************************)
(* Rows.                                                                   *)
(***************************************************************************)
\* new Tenant({ slug, status: REQUESTED, plan: 'trial', channel }) as saved by
\* create()
NewTenant(id, slug, channelId) ==
    [id |-> id, slug |-> slug, status |-> REQUESTED, channelId |-> channelId,
     suspendedAt |-> NullTime, deletedAt |-> NullTime, plan |-> "trial"]

\* new TenantDomain({ domain, tenantId, isPrimary, sslStatus: 'pending' })
NewDomain(id, d, tenantId, isPrimary) ==
    [id |-> id, domain |-> d, tenantId |-> tenantId, isPrimary |-> isPrimary]

\* channelService.create({ code: `tenant-${slug}`, token, sellerId })
NewChannel(id, slug) ==
    [id |-> id, code |-> <<"tenant", slug>>, token |-> MakeToken(slug, id),
     seller |-> slug]

SuperAdminRoleCode == <<"__super_admin_role__">>

(***************************************************************************)
(* Database constraints.                                                   *)
(***************************************************************************)
\* Tenant.channel is @OneToOne with @JoinColumn: the join column carries a
\* unique constraint, so an insert that reuses a channel is refused.
ChannelFreeUnconstrained(cid) == TRUE
ChannelFree(cid) == \A i \in TenantIds : tenants[i].channelId # cid

\* Tenant.slug is @Index({ unique: true }).
SlugInsertable(slug) == \A i \in TenantIds : tenants[i].slug # slug

\* TenantDomain.domain is @Index({ unique: true }): checked at insert time.
DomainInsertableUnconstrained(d) == TRUE
DomainInsertable(d) == \A r \in domains : r.domain # d

(***************************************************************************)
(* Service calls, each run to completion (Spec).                           *)
(***************************************************************************)
\* TenantService.create(ctx, { slug, channelId })
Create(slug, channelId) ==
    /\ UNCHANGED <<domains, nextDomainId, channels, sellers, roles, admins>>
    /\ UNCHANGED <<auditLog, now, procVars, gateVars>>
    /\ IF SlugTaken(slug)
       THEN /\ result' = Err("create", NoId, "Tenant already exists")
            /\ UNCHANGED tenants
       ELSE IF ~HasChannel(channelId)
       THEN /\ result' = Err("create", NoId, "Channel not found")
            /\ UNCHANGED tenants
       ELSE IF ~ChannelFree(channelId)
       THEN /\ result' = Err("create", NoId, "QueryFailedError")
            /\ UNCHANGED tenants
       ELSE /\ tenants' = Append(tenants, NewTenant(Len(tenants) + 1, slug, channelId))
            /\ result' = Ok("create", Len(tenants) + 1)

\* changeStatus, lines 189-195: the events published after save; each carries
\* the entity that save returned, which is the entity that was passed to it.
Event(type, saved, from, to) ==
    [type |-> type, tenantId |-> saved.id, status |-> saved.status,
     fromStatus |-> from, toStatus |-> to]
PublishedEventsTwice(saved, oldStatus, newStatus) ==
    <<Event("TenantStatusChanged", saved, oldStatus, newStatus),
      Event("TenantStatusChanged", saved, oldStatus, newStatus)>>
PublishedEvents(saved, oldStatus, newStatus) ==
    <<Event("TenantStatusChanged", saved, oldStatus, newStatus)>>
    \o (IF newStatus = SUSPENDED THEN <<Event("TenantSuspended", saved, "", "")>>
        ELSE IF newStatus = DELETED THEN <<Event("TenantDeleted", saved, "", "")>>
        ELSE <<>>)

\* TenantService.changeStatus(ctx, id, newStatus); cap bounds the audit table.
\* auditFails: the insert of the TenantStatusChangedEvent subscriber rejects,
\* which the subscriber catches and logs.
ChangeStatusWith(cap, auditFails, ctx, id, newStatus) ==
    /\ UNCHANGED <<domains, nextDomainId, channels, sellers, roles, admins>>
    /\ UNCHANGED <<now, procVars, gateVars>>
    /\ IF ~HasTenant(id)
       THEN /\ result' = Err("changeStatus", id, "Tenant not found")
            /\ UNCHANGED <<tenants, auditLog>>
       ELSE LET tenant == tenants[id]
                oldStatus == tenant.status
            IN  IF ~IsAllowed(oldStatus, newStatus)
                THEN /\ result' = InvalidTransition(id, oldStatus, newStatus)
                     /\ UNCHANGED <<tenants, auditLog>>
                ELSE /\ Len(auditLog) < cap
                     /\ tenants' = [tenants EXCEPT
                           ![id] = Save(@, Transitioned(tenant, newStatus, now))]
                     /\ auditLog' = IF auditFails THEN auditLog
                                     ELSE Append(auditLog,
                                            StatusChangedEntry(ctx, id, oldStatus, newStatus))
                     /\ result' = [Ok("changeStatus", id) EXCEPT
                                     !.from = oldStatus, !.to = newStatus,
                                     !.events = PublishedEvents(
                                        Transitioned(tenant, newStatus, now),
                                        oldStatus, newStatus)]

ChangeStatusCapped(cap, ctx, id, newStatus) ==
    ChangeStatusWith(cap, FALSE, ctx, id, newStatus)

ChangeStatus(ctx, id, newStatus) == ChangeStatusCapped(MaxAudit, ctx, id, newStatus)

\* TenantService.addDomain(ctx, tenantId, domain, isPrimary)
AddDomain(tenantId, d, isPrimary) ==
    /\ nextDomainId <= MaxDomainId
    /\ UNCHANGED <<tenants, channels, sellers, roles, admins>>
    /\ UNCHANGED <<auditLog, now, procVars, gateVars>>
    /\ IF DomainTaken(d)
       THEN /\ result' = Err("addDomain", tenantId, "Domain is already in use")
            /\ UNCHANGED <<domains, nextDomainId>>
       ELSE IF ~HasTenant(tenantId) \/ ~DomainInsertable(d)
       THEN /\ result' = Err("addDomain", tenantId, "QueryFailedError")
            /\ UNCHANGED <<domains, nextDomainId>>
       ELSE /\ domains' = domains \cup {NewDomain(nextDomainId, d, tenantId, isPrimary)}
            /\ nextDomainId' = nextDomainId + 1
            /\ result' = Ok("addDomain", tenantId)

\* TenantService.removeDomain(ctx, tenantId, domainId)
RemoveDomainAnyTenant(tenantId, domainId) ==
    /\ UNCHANGED <<tenants, nextDomainId, channels, sellers, roles, admins>>
    /\ UNCHANGED <<auditLog, now, procVars, gateVars>>
    /\ LET found == {r \in domains : r.id = domainId}
       IN  IF found = {}
           THEN /\ result' = Err("removeDomain", tenantId, "Domain not found")
                /\ UNCHANGED domains
           ELSE /\ domains' = domains \ found
                /\ result' = Ok("removeDomain", tenantId)
RemoveDomain(tenantId, domainId) ==
    /\ UNCHANGED <<tenants, nextDomainId, channels, sellers, roles, admins>>
    /\ UNCHANGED <<auditLog, now, procVars, gateVars>>
    /\ LET found == {r \in domains : r.id = domainId /\ r.tenantId = tenantId}
       IN  IF found = {}
           THEN /\ result' = Err("removeDomain", tenantId, "Domain not found")
                /\ UNCHANGED domains
           ELSE /\ domains' = domains \ found
                /\ result' = Ok("removeDomain", tenantId)

\* TenantProvisioningService.provision, steps 2-9: the rows it writes when no
\* step fails (seller, channel, SuperAdmin role assigned to the channel, tenant
\* admin role, administrator, tenant record, primary domain, PROVISIONING and
\* then TRIAL), and the audit rows of the events it publishes.
ProvisionedTenantUnfinished(tid, slug, cid) == NewTenant(tid, slug, cid)
ProvisionedTenant(tid, slug, cid) ==
    LET t0 == NewTenant(tid, slug, cid)
        t1 == Save(t0, Transitioned(t0, PROVISIONING, now))
    IN  Save(t1, Transitioned(t1, TRIAL, now))

ProvisionAudit(tid, slug) ==
    <<StatusChangedEntry(AdminCtx, tid, REQUESTED, PROVISIONING),
      StatusChangedEntry(AdminCtx, tid, PROVISIONING, TRIAL),
      TenantCreatedEntry(AdminCtx, tid, slug)>>

ProvisionWrites(slug, primaryDomain) ==
    LET cid == Len(channels) + 1
        tid == Len(tenants) + 1
    IN  /\ sellers' = sellers \cup {slug}
        /\ channels' = Append(channels, NewChannel(cid, slug))
        /\ roles' = {IF r.code = SuperAdminRoleCode
                     THEN [r EXCEPT !.channels = @ \cup {cid}]
                     ELSE r : r \in roles}
                    \cup {[code |-> <<"tenant-admin", slug>>, channels |-> {cid}]}
        /\ admins' = admins \cup {[email |-> slug, role |-> <<"tenant-admin", slug>>]}
        /\ tenants' = Append(tenants, ProvisionedTenant(tid, slug, cid))
        /\ domains' = domains \cup {NewDomain(nextDomainId, primaryDomain, tid, TRUE)}
        /\ nextDomainId' = nextDomainId + 1
        /\ auditLog' = auditLog \o ProvisionAudit(tid, slug)
        /\ result' = [Ok("provision", tid) EXCEPT !.channelToken = MakeToken(slug, cid)]

\* Steps 8 and 9 pass validateStatusTransition.
ProvisionStepsOk ==
    /\ IsAllowed(REQUESTED, PROVISIONING)
    /\ IsAllowed(PROVISIONING, TRIAL)

\* provisionTenant runs inside @Transaction(): when provision throws, every
\* row written through ctx since the start of the request is rolled back.
RollbackNone(before, written) == written
Rollback(before, written) == before

\* TenantProvisioningService.provision(ctx, { slug, primaryDomain }), called by
\* provisionTenant.  addDomain at step 7 throws when the domain is in use,
\* after steps 2-6 have written the seller, the channel, the roles, the
\* administrator and the tenant record (status REQUESTED).
ProvisionCapped(cap, slug, primaryDomain) ==
    /\ Len(auditLog) + 3 <= cap
    /\ nextDomainId <= MaxDomainId
    /\ UNCHANGED <<now, procVars, gateVars>>
    /\ IF SlugTaken(slug)
       THEN /\ result' = Err("provision", NoId, "Tenant already exists")
            /\ UNCHANGED <<dirVars, auditLog>>
       ELSE IF DomainTaken(primaryDomain)
       THEN LET cid == Len(channels) + 1
                tid == Len(tenants) + 1
            IN  /\ result' = Err("provision", NoId, "Domain is already in use")
                /\ sellers' = Rollback(sellers, sellers \cup {slug})
                /\ channels' = Rollback(channels, Append(channels, NewChannel(cid, slug)))
                /\ tenants' = Rollback(tenants, Append(tenants, NewTenant(tid, slug, cid)))
                /\ UNCHANGED <<domains, nextDomainId, roles, admins, auditLog>>
       ELSE IF ~ProvisionStepsOk
       THEN /\ result' = Err("provision", NoId, "Invalid status transition")
            /\ UNCHANGED <<dirVars, auditLog>>
       ELSE ProvisionWrites(slug, primaryDomain)

Provision(slug, primaryDomain) == ProvisionCapped(MaxAudit, slug, primaryDomain)

\* The clock `now` counts seconds.  Time passes, half a cache lifetime at a
\* time.
cacheTtlMs == 60000
cacheTtl == cacheTtlMs \div 1000
TickSeconds == cacheTtl \div 2
Tick ==
    /\ now < MaxTicks * TickSeconds
    /\ now' = now + TickSeconds
    /\ UNCHANGED <<dirVars, auditLog, result, procVars, gateVars>>

\* AuditService.findAll(ctx, { take }): a page of the newest entries.  It
\* only reads.
AuditService_findAllPruning(take) ==
    /\ result' = Ok("auditLogs", IF Len(auditLog) < take THEN Len(auditLog) ELSE take)
    /\ auditLog' = SubSeq(auditLog, 1, IF Len(auditLog) < take THEN Len(auditLog) ELSE take)
    /\ UNCHANGED <<dirVars, now, procVars, gateVars>>
AuditService_findAll(take) ==
    /\ result' = Ok("auditLogs", IF Len(auditLog) < take THEN Len(auditLog) ELSE take)
    /\ UNCHANGED <<dirVars, auditLog, now, procVars, gateVars>>

(***************************************************************************)
(* TenantPurgeJob: the process callback of the 'tenant-purge' queue runs   *)
(* processPendingDeletions and then processExpiredTenants with             *)
(* RequestContext.empty(), outside any transaction: every save is final    *)
(* when it returns.  A step of an iteration may throw (the transition is   *)
(* refused, the domain row is gone, the audit insert fails); which step    *)
(* does, for which tenant, is an input of the run.                         *)
(***************************************************************************)
DELETION_GRACE_DAYS == 30
PURGE_AFTER_DAYS == 90
DaySeconds == 24 * 60 * 60
EmptyCtx == [user |-> NoUser, channel |-> NoId]
Faults == {"none", "status", "domain", "audit"}

\* cutoff = new Date(); cutoff.setDate(cutoff.getDate() - days)
CutoffNow(at, days) == at
Cutoff(at, days) == at - days * DaySeconds

\* repo.find({ where: { status, deletedAt: LessThan(cutoff) } }), by id
Expired(ts, status, cutoff) ==
    SelectSeq([i \in 1..Len(ts) |-> i],
              LAMBDA i : /\ ts[i].status = status
                         /\ ts[i].deletedAt # NullTime
                         /\ ts[i].deletedAt < cutoff)

\* changeStatus called by the job: the tenant and audit tables afterwards.
JobChangeStatus(S, id, newStatus, at) ==
    LET tenant == S.tenants[id]
    IN  [S EXCEPT !.tenants[id] = Save(@, Transitioned(tenant, newStatus, at)),
                  !.auditLog = Append(@, StatusChangedEntry(EmptyCtx, id,
                                                            tenant.status, newStatus))]

\* catch (e) { Logger.error(...) }: the loop goes on with the next tenant.
AfterThrow(ids) == <<>>
AfterCatch(ids) == Tail(ids)

\* One iteration of the loop of processPendingDeletions.
AutoDelete(S, id, fault, at) ==
    LET tenant == S.tenants[id]
    IN  IF fault = "status" \/ ~IsAllowed(tenant.status, DELETED)
        THEN [S EXCEPT !.failed = Append(@, id)]
        ELSE LET S1 == JobChangeStatus(S, id, DELETED, at)
             IN  IF fault = "audit"
                 THEN [S1 EXCEPT !.failed = Append(@, id)]
                 ELSE [S1 EXCEPT !.auditLog = Append(@,
                          AuditEntry(EmptyCtx, "TENANT_AUTO_DELETED", "WARN", id,
                                     [slug |-> tenant.slug,
                                      graceDays |-> DELETION_GRACE_DAYS]))]

\* One iteration of the loop of processExpiredTenants.
PurgeTenant(S, id, fault, at) ==
    LET tenant == S.tenants[id]
        owned == {r \in S.domains : r.tenantId = id}
    IN  IF fault = "domain" /\ owned # {}
        THEN [S EXCEPT !.failed = Append(@, id)]
        ELSE LET S1 == [S EXCEPT !.domains = @ \ owned]
             IN  IF fault = "status" \/ ~IsAllowed(tenant.status, PURGED)
                 THEN [S1 EXCEPT !.failed = Append(@, id)]
                 ELSE LET S2 == JobChangeStatus(S1, id, PURGED, at)
                      IN  IF fault = "audit"
                          THEN [S2 EXCEPT !.failed = Append(@, id)]
                          ELSE [S2 EXCEPT !.auditLog = Append(@,
                                   AuditEntry(EmptyCtx, "TENANT_PURGED", "CRITICAL", id,
                                              [slug |-> tenant.slug,
                                               purgeAfterDays |-> PURGE_AFTER_DAYS]))]

RECURSIVE AutoDeleteEach(_, _, _, _)
AutoDeleteEach(S, ids, f, at) ==
    IF ids = <<>> THEN S
    ELSE LET S1 == AutoDelete(S, Head(ids), f[Head(ids)], at)
         IN  AutoDeleteEach(S1, IF Len(S1.failed) > Len(S.failed)
                                THEN AfterCatch(ids) ELSE Tail(ids), f, at)

RECURSIVE PurgeEach(_, _, _, _)
PurgeEach(S, ids, f, at) ==
    IF ids = <<>> THEN S
    ELSE LET S1 == PurgeTenant(S, Head(ids), f[Head(ids)], at)
         IN  PurgeEach(S1, IF Len(S1.failed) > Len(S.failed)
                           THEN AfterCatch(ids) ELSE Tail(ids), f, at)

processPendingDeletions(S, f, at) ==
    AutoDeleteEach(S, Expired(S.tenants, PENDING_DELETION,
                              Cutoff(at, DELETION_GRACE_DAYS)), f, at)

processExpiredTenants(S, f, at) ==
    PurgeEach(S, Expired(S.tenants, DELETED, Cutoff(at, PURGE_AFTER_DAYS)), f, at)

\* One job of the queue.
PurgeRun(f) ==
    LET S0 == [tenants |-> tenants, domains |-> domains, auditLog |-> auditLog,
               failed |-> <<>>]
        S1 == processPendingDeletions(S0, f, now)
        S2 == processExpiredTenants(S1, f, now)
    IN  /\ Len(S2.auditLog) <= MaxPurgeAudit
        /\ tenants' = S2.tenants
        /\ domains' = S2.domains
        /\ auditLog' = S2.auditLog
        /\ result' = [Ok("purge", NoId) EXCEPT !.failed = S2.failed]
        /\ UNCHANGED <<nextDomainId, channels, sellers, roles, admins>>
        /\ UNCHANGED <<now, procVars, gateVars>>

\* The same job, statement by statement (SpecJob): the find of phase 1, then
\* one iteration of its loop at a time, each calling changeStatus, which
\* reads the tenant again; phase 2 follows when the loop is done.
IdleJob == [pc |-> "idle", ids |-> <<>>]

\* processPendingDeletions, lines 69-78: cutoff and repo.find.
Job_findPending ==
    /\ job.pc = "idle"
    /\ job' = [pc |-> "pending",
               ids |-> Expired(tenants, PENDING_DELETION,
                               Cutoff(now, DELETION_GRACE_DAYS))]
    /\ UNCHANGED <<dirVars, auditLog, now, result, cs, ad, gateVars>>

\* processPendingDeletions, lines 80-93: one iteration of the loop.
Job_autoDelete ==
    /\ job.pc = "pending"
    /\ job.ids # <<>>
    /\ LET S0 == [tenants |-> tenants, domains |-> domains, auditLog |-> auditLog,
                  failed |-> <<>>]
           S1 == AutoDelete(S0, Head(job.ids), "none", now)
       IN  /\ Len(S1.auditLog) <= MaxPurgeAudit
           /\ tenants' = S1.tenants
           /\ auditLog' = S1.auditLog
    /\ job' = [job EXCEPT !.ids = Tail(@)]
    /\ UNCHANGED <<domains, nextDomainId, channels, sellers, roles, admins>>
    /\ UNCHANGED <<now, result, cs, ad, gateVars>>

\* The loop is done: processExpiredTenants, and the job ends.
Job_processExpired ==
    /\ job.pc = "pending"
    /\ job.ids = <<>>
    /\ LET S0 == [tenants |-> tenants, domains |-> domains, auditLog |-> auditLog,
                  failed |-> <<>>]
           S1 == processExpiredTenants(S0, [i \in TenantIds |-> "none"], now)
       IN  /\ Len(S1.auditLog) <= MaxPurgeAudit
           /\ tenants' = S1.tenants
           /\ domains' = S1.domains
           /\ auditLog' = S1.auditLog
    /\ job' = IdleJob
    /\ result' = Ok("purge", NoId)
    /\ UNCHANGED <<nextDomainId, channels, sellers, roles, admins>>
    /\ UNCHANGED <<now, cs, ad, gateVars>>

\* A grace period passes.
PeriodTick ==
    /\ now < MaxPeriods * DELETION_GRACE_DAYS * DaySeconds
    /\ now' = now + DELETION_GRACE_DAYS * DaySeconds
    /\ UNCHANGED <<dirVars, auditLog, result, procVars, gateVars>>

(***************************************************************************)
(* The same calls as interleaved steps (SpecConc).  Each call runs in its  *)
(* own request and transaction; a step is what runs between two awaits     *)
(* that reach the database.  No call takes a lock, and Tenant has no       *)
(* version column.                                                         *)
(***************************************************************************)
Procs == {"p1", "p2"}
IdleProc == [pc |-> "idle", id |-> NoId, arg |-> "", snap |-> NewTenant(NoId, "", NoId)]
IdleAdd == [pc |-> "idle", kind |-> "", tenantId |-> NoId, slug |-> "",
            domain |-> Str("", FALSE, FALSE), isPrimary |-> FALSE]
Idle(p) == cs[p].pc = "idle" /\ ad[p].pc = "idle"

\* changeStatus, lines 169-174: findById, then validateStatusTransition on the
\* entity that was read.
CsBegin(p, id, newStatus) ==
    /\ Idle(p)
    /\ UNCHANGED <<dirVars, auditLog, now, ad, job, gateVars>>
    /\ IF ~HasTenant(id)
       THEN /\ result' = Err("changeStatus", id, "Tenant not found")
            /\ UNCHANGED cs
       ELSE IF ~IsAllowed(tenants[id].status, newStatus)
       THEN /\ result' = InvalidTransition(id, tenants[id].status, newStatus)
            /\ UNCHANGED cs
       ELSE /\ cs' = [cs EXCEPT ![p] = [pc |-> "validated", id |-> id,
                                        arg |-> newStatus, snap |-> tenants[id]]]
            /\ UNCHANGED result

\* changeStatus, lines 176-197: the assignments to the entity that was read,
\* repository.save, and the events (audited by the AuditService subscriber).
CsCommit(p) ==
    /\ cs[p].pc = "validated"
    /\ Len(auditLog) < MaxAudit
    /\ LET c == cs[p]
       IN  /\ tenants' = [tenants EXCEPT
                 ![c.id] = Save(@, Transitioned(c.snap, c.arg, now))]
           /\ auditLog' = Append(auditLog,
                 StatusChangedEntry(AdminCtx, c.id, c.snap.status, c.arg))
           /\ result' = [Ok("changeStatus", c.id) EXCEPT
                           !.from = c.snap.status, !.to = c.arg,
                           !.events = PublishedEvents(
                              Transitioned(c.snap, c.arg, now),
                              c.snap.status, c.arg)]
    /\ cs' = [cs EXCEPT ![p] = IdleProc]
    /\ UNCHANGED <<domains, nextDomainId, channels, sellers, roles, admins>>
    /\ UNCHANGED <<now, ad, job, gateVars>>

\* update, lines 149-152: findById.
Plans == {"pro"}
UpBegin(p, id, plan) ==
    /\ Idle(p)
    /\ UNCHANGED <<dirVars, auditLog, now, ad, job, gateVars>>
    /\ IF ~HasTenant(id)
       THEN /\ result' = Err("update", id, "Tenant not found")
            /\ UNCHANGED cs
       ELSE /\ cs' = [cs EXCEPT ![p] = [pc |-> "loaded", id |-> id,
                                        arg |-> plan, snap |-> tenants[id]]]
            /\ UNCHANGED result

\* update, lines 154-158: the assignments to the entity that was read, and
\* repository.save of that entity.
UpCommit(p) ==
    /\ cs[p].pc = "loaded"
    /\ LET c == cs[p]
       IN  /\ tenants' = [tenants EXCEPT ![c.id] = Save(@, [c.snap EXCEPT !.plan = c.arg])]
           /\ result' = Ok("update", c.id)
    /\ cs' = [cs EXCEPT ![p] = IdleProc]
    /\ UNCHANGED <<domains, nextDomainId, channels, sellers, roles, admins>>
    /\ UNCHANGED <<auditLog, now, ad, job, gateVars>>

\* addDomain, lines 210-215: the findOne that looks for the domain.
AdBegin(p, tenantId, d, isPrimary) ==
    /\ Idle(p)
    /\ UNCHANGED <<dirVars, auditLog, now, cs, job, gateVars>>
    /\ IF DomainTaken(d)
       THEN /\ result' = Err("addDomain", tenantId, "Domain is already in use")
            /\ UNCHANGED ad
       ELSE /\ ad' = [ad EXCEPT ![p] = [IdleAdd EXCEPT
                        !.pc = "checked", !.kind = "addDomain",
                        !.tenantId = tenantId, !.domain = d, !.isPrimary = isPrimary]]
            /\ UNCHANGED result

\* addDomain, lines 217-224: the insert, under the foreign key and the unique
\* index of TenantDomain.
AdCommit(p) ==
    /\ ad[p].pc = "checked"
    /\ ad[p].kind = "addDomain"
    /\ nextDomainId <= MaxDomainId
    /\ UNCHANGED <<tenants, channels, sellers, roles, admins>>
    /\ UNCHANGED <<auditLog, now, cs, job, gateVars>>
    /\ ad' = [ad EXCEPT ![p] = IdleAdd]
    /\ LET c == ad[p]
       IN  IF ~HasTenant(c.tenantId) \/ ~DomainInsertable(c.domain)
           THEN /\ result' = Err("addDomain", c.tenantId, "QueryFailedError")
                /\ UNCHANGED <<domains, nextDomainId>>
           ELSE /\ domains' = domains \cup
                      {NewDomain(nextDomainId, c.domain, c.tenantId, c.isPrimary)}
                /\ nextDomainId' = nextDomainId + 1
                /\ result' = Ok("addDomain", c.tenantId)

\* provision: the lookups that guard it (findBySlug at step 1, the slug lookup
\* of create at step 6, the domain lookup of addDomain at step 7).
ProvBegin(p, slug, primaryDomain) ==
    /\ Idle(p)
    /\ UNCHANGED <<dirVars, auditLog, now, cs, job, gateVars>>
    /\ IF SlugTaken(slug)
       THEN /\ result' = Err("provision", NoId, "Tenant already exists")
            /\ UNCHANGED ad
       ELSE IF DomainTaken(primaryDomain)
       THEN /\ result' = Err("provision", NoId, "Domain is already in use")
            /\ UNCHANGED ad
       ELSE /\ ad' = [ad EXCEPT ![p] = [IdleAdd EXCEPT
                        !.pc = "checked", !.kind = "provision",
                        !.slug = slug, !.domain = primaryDomain, !.isPrimary = TRUE]]
            /\ UNCHANGED result

\* provision: its inserts, under the unique indexes of Tenant.slug and
\* TenantDomain.domain; a refused insert rolls the transaction back.
ProvCommit(p) ==
    /\ ad[p].pc = "checked"
    /\ ad[p].kind = "provision"
    /\ Len(auditLog) + 3 <= MaxAudit
    /\ nextDomainId <= MaxDomainId
    /\ UNCHANGED <<now, cs, job, gateVars>>
    /\ ad' = [ad EXCEPT ![p] = IdleAdd]
    /\ IF ~SlugInsertable(ad[p].slug) \/ ~DomainInsertable(ad[p].domain)
       THEN /\ result' = Err("provision", NoId, "QueryFailedError")
            /\ UNCHANGED <<dirVars, auditLog>>
       ELSE ProvisionWrites(ad[p].slug, ad[p].domain)

(***************************************************************************)
(* provision, statement by statement (SpecSteps): each awaited call of     *)
(* lines 105-210 is one step of the request that runs it; the rows it has  *)
(* written so far are those of its transaction.                            *)
(***************************************************************************)
Provisioner == "p1"

\* The calls of provision in program order.
ProvisionOrderPublishEarly ==
    <<"createSeller", "createChannel", "assignRoleToChannel", "createRole",
      "createAdministrator", "createTenant", "addDomain", "toProvisioning",
      "publishCreated", "toTrial">>
ProvisionOrder ==
    <<"createSeller", "createChannel", "assignRoleToChannel", "createRole",
      "createAdministrator", "createTenant", "addDomain", "toProvisioning",
      "toTrial", "publishCreated">>

StepAfterIn(order, step) ==
    LET k == CHOOSE k \in 1..Len(order) : order[k] = step
    IN  IF k = Len(order) THEN "idle" ELSE order[k + 1]

StepAfterPublishEarly(step) == StepAfterIn(ProvisionOrderPublishEarly, step)
StepAfter(step) == StepAfterIn(ProvisionOrder, step)

AtStep(step) ==
    /\ ad[Provisioner].kind = "provision"
    /\ ad[Provisioner].pc = step

\* channelService.create returned this channel to the running provision.
ChannelOfSlug(slug) ==
    CHOOSE c \in 1..Len(channels) : channels[c].code = <<"tenant", slug>>

\* The statement after `step`; after the last one provision returns.
Proceed(step, tid) ==
    IF StepAfter(step) = "idle"
    THEN /\ ad' = [ad EXCEPT ![Provisioner] = IdleAdd]
         /\ result' = [Ok("provision", tid) EXCEPT
                         !.channelToken =
                            channels[ChannelOfSlug(ad[Provisioner].slug)].token]
    ELSE /\ ad' = [ad EXCEPT ![Provisioner].pc = StepAfter(step),
                             ![Provisioner].tenantId = tid]
         /\ UNCHANGED result

\* Step 1: findBySlug.
Prov_findBySlug(slug, primaryDomain) ==
    /\ Idle(Provisioner)
    /\ Len(auditLog) + 3 <= MaxAudit
    /\ nextDomainId <= MaxDomainId
    /\ UNCHANGED <<dirVars, auditLog, now, cs, job, gateVars>>
    /\ IF SlugTaken(slug)
       THEN /\ result' = Err("provision", NoId, "Tenant already exists")
            /\ UNCHANGED ad
       ELSE /\ ad' = [ad EXCEPT ![Provisioner] = [IdleAdd EXCEPT
                        !.pc = ProvisionOrder[1], !.kind = "provision",
                        !.slug = slug, !.domain = primaryDomain, !.isPrimary = TRUE]]
            /\ UNCHANGED result

\* Step 2: sellerService.create.
Prov_createSeller ==
    /\ AtStep("createSeller")
    /\ sellers' = sellers \cup {ad[Provisioner].slug}
    /\ Proceed("createSeller", NoId)
    /\ UNCHANGED <<tenants, domains, nextDomainId, channels, roles, admins>>
    /\ UNCHANGED <<auditLog, now, cs, job, gateVars>>

\* Step 3: channelService.create.
Prov_createChannel ==
    /\ AtStep("createChannel")
    /\ channels' = Append(channels, NewChannel(Len(channels) + 1, ad[Provisioner].slug))
    /\ Proceed("createChannel", NoId)
    /\ UNCHANGED <<tenants, domains, nextDomainId, sellers, roles, admins>>
    /\ UNCHANGED <<auditLog, now, cs, job, gateVars>>

\* Step 3.5: roleService.assignRoleToChannel(superAdminRole.id, channel.id).
Prov_assignRoleToChannel ==
    /\ AtStep("assignRoleToChannel")
    /\ roles' = {IF r.code = SuperAdminRoleCode
                 THEN [r EXCEPT !.channels = @ \cup {ChannelOfSlug(ad[Provisioner].slug)}]
                 ELSE r : r \in roles}
    /\ Proceed("assignRoleToChannel", NoId)
    /\ UNCHANGED <<tenants, domains, nextDomainId, channels, sellers, admins>>
    /\ UNCHANGED <<auditLog, now, cs, job, gateVars>>

\* Step 4: roleService.create, the tenant-admin role of the new channel.
Prov_createRole ==
    /\ AtStep("createRole")
    /\ roles' = roles \cup {[code |-> <<"tenant-admin", ad[Provisioner].slug>>,
                             channels |-> {ChannelOfSlug(ad[Provisioner].slug)}]}
    /\ Proceed("createRole", NoId)
    /\ UNCHANGED <<tenants, domains, nextDomainId, channels, sellers, admins>>
    /\ UNCHANGED <<auditLog, now, cs, job, gateVars>>

\* Step 5: administratorService.create.
Prov_createAdministrator ==
    /\ AtStep("createAdministrator")
    /\ admins' = admins \cup {[email |-> ad[Provisioner].slug,
                               role |-> <<"tenant-admin", ad[Provisioner].slug>>]}
    /\ Proceed("createAdministrator", NoId)
    /\ UNCHANGED <<tenants, domains, nextDomainId, channels, sellers, roles>>
    /\ UNCHANGED <<auditLog, now, cs, job, gateVars>>

\* Step 6: tenantService.create.
Prov_createTenant ==
    /\ AtStep("createTenant")
    /\ tenants' = Append(tenants, NewTenant(Len(tenants) + 1, ad[Provisioner].slug,
                                            ChannelOfSlug(ad[Provisioner].slug)))
    /\ Proceed("createTenant", Len(tenants) + 1)
    /\ UNCHANGED <<domains, nextDomainId, channels, sellers, roles, admins>>
    /\ UNCHANGED <<auditLog, now, cs, job, gateVars>>

\* Step 7: tenantService.addDomain; when it throws, @Transaction() of
\* provisionTenant rolls back the rows of steps 2-6.
Prov_addDomain ==
    /\ AtStep("addDomain")
    /\ UNCHANGED <<auditLog, now, cs, job, gateVars>>
    /\ LET c == ad[Provisioner]
           cid == ChannelOfSlug(c.slug)
       IN  IF DomainTaken(c.domain)
           THEN /\ result' = Err("provision", NoId, "Domain is already in use")
                /\ ad' = [ad EXCEPT ![Provisioner] = IdleAdd]
                /\ sellers' = sellers \ {c.slug}
                /\ channels' = SubSeq(channels, 1, cid - 1)
                /\ roles' = {IF r.code = SuperAdminRoleCode
                             THEN [r EXCEPT !.channels = @ \ {cid}]
                             ELSE r : r \in {q \in roles :
                                               q.code # <<"tenant-admin", c.slug>>}}
                /\ admins' = {a \in admins : a.email # c.slug}
                /\ tenants' = SubSeq(tenants, 1, c.tenantId - 1)
                /\ UNCHANGED <<domains, nextDomainId>>
           ELSE /\ domains' = domains \cup
                      {NewDomain(nextDomainId, c.domain, c.tenantId, TRUE)}
                /\ nextDomainId' = nextDomainId + 1
                /\ Proceed("addDomain", c.tenantId)
                /\ UNCHANGED <<tenants, channels, sellers, roles, admins>>

\* Step 8: changeStatus(PROVISIONING), then changeStatus(TRIAL).
Prov_changeStatus(step, newStatus) ==
    /\ AtStep(step)
    /\ LET tid == ad[Provisioner].tenantId
           tenant == tenants[tid]
       IN  /\ IsAllowed(tenant.status, newStatus)
           /\ tenants' = [tenants EXCEPT
                            ![tid] = Save(@, Transitioned(tenant, newStatus, now))]
           /\ auditLog' = Append(auditLog, StatusChangedEntry(AdminCtx, tid,
                                                              tenant.status, newStatus))
           /\ Proceed(step, tid)
    /\ UNCHANGED <<domains, nextDomainId, channels, sellers, roles, admins>>
    /\ UNCHANGED <<now, cs, job, gateVars>>

\* Step 9: eventBus.publish(new TenantCreatedEvent(...)), which the audit
\* subscriber records.
Prov_publishCreated ==
    /\ AtStep("publishCreated")
    /\ auditLog' = Append(auditLog, TenantCreatedEntry(AdminCtx, ad[Provisioner].tenantId,
                                                       ad[Provisioner].slug))
    /\ Proceed("publishCreated", ad[Provisioner].tenantId)
    /\ UNCHANGED <<dirVars, now, cs, job, gateVars>>

(***************************************************************************)
(* TenantResolutionService (SpecGate).                                     *)
(***************************************************************************)
\* domain.split(':')[0].toLowerCase()
Normalize(d) == toLowerCase(StripPort(d))

\* What resolve returns: undefined, or a TenantResolutionResult.
NotCalled ==
    [called |-> FALSE, found |-> FALSE, channelToken |-> NoToken,
     tenantId |-> NoId, tenantSlug |-> "", tenantStatus |-> "", error |-> FALSE]
NotFound == [NotCalled EXCEPT !.called = TRUE]
\* resolve rejects: the findOne of the Directory failed.
Threw == [NotCalled EXCEPT !.called = TRUE, !.error = TRUE]
Resolution(t) ==
    [called |-> TRUE, found |-> TRUE, channelToken |-> channels[t.channelId].token,
     tenantId |-> t.id, tenantSlug |-> t.slug, tenantStatus |-> t.status,
     error |-> FALSE]

\* cache.get(normalizedDomain) with cached.expiresAt > Date.now()
CacheHitIgnoringExpiry(n) == {e \in cache : e.key = n}
CacheHit(n) == {e \in cache : e.key = n /\ e.expiresAt > now}

\* findOne({ where: { domain: normalizedDomain }, relations: tenant, channel })
FindDomain(n) == {r \in domains : r.domain = n /\ HasTenant(r.tenantId)}

\* tenant.status !== TRIAL && tenant.status !== ACTIVE
Operational(t) == t.status \in {TRIAL, ACTIVE}

\* resolve(domain): its return value.
Resolve(d) ==
    LET n == Normalize(d)
    IN  IF CacheHit(n) # {} THEN (CHOOSE e \in CacheHit(n) : TRUE).result
        ELSE IF FindDomain(n) = {} THEN NotFound
        ELSE LET t == tenants[(CHOOSE r \in FindDomain(n) : TRUE).tenantId]
             IN  IF Operational(t) THEN Resolution(t) ELSE NotFound

\* resolve(domain) reaches the database: no live cache entry answers it.
ReadsDirectory(d) == CacheHit(Normalize(d)) = {}

\* resolve(domain): the cache it leaves behind.
CacheAfterResolve(d) ==
    LET n == Normalize(d)
        others == {e \in cache : e.key # n}
    IN  IF CacheHit(n) # {} THEN cache
        ELSE IF FindDomain(n) = {} THEN others
        ELSE IF ~Resolve(d).found THEN cache
        ELSE others \cup {[key |-> n, result |-> Resolve(d),
                           expiresAt |-> now + cacheTtl]}

\* invalidate(domain): cache.delete(domain.toLowerCase())
InvalidatedToggle(c, d) ==
    IF \E e \in c : e.key = toLowerCase(d)
    THEN {e \in c : e.key # toLowerCase(d)}
    ELSE c \cup {[key |-> toLowerCase(d), result |-> NotFound, expiresAt |-> now]}
Invalidated(c, d) == {e \in c : e.key # toLowerCase(d)}

Invalidate(d) ==
    /\ cache' = Invalidated(cache, d)
    /\ result' = Ok("invalidate", NoId)
    /\ UNCHANGED <<dirVars, auditLog, now, procVars, req>>

(***************************************************************************)
(* Requests.                                                               *)
(***************************************************************************)
\* Hosts a client can name: a tenant's domain, the same with upper-case
\* letters and a port, a domain nobody registered, and the development host.
Hosts ==
    {Str("alpha.shop", FALSE, FALSE), Str("alpha.shop", TRUE, TRUE),
     Str("unknown.shop", FALSE, FALSE), Str("localhost", FALSE, TRUE)}

\* skipDomains
skipDomains == {"localhost", "127.0.0.1", "0.0.0.0"}
Bypassed(host) == Normalize(host).name \in skipDomains

\* Operations: handler name (with the verb it starts with), transport, the
\* @Allow metadata and the API it belongs to.
Op(name, verb, gql, perms, api) ==
    [name |-> name, verb |-> verb, gql |-> gql, perms |-> perms, api |-> api]
NoOp == Op("", "", FALSE, "", "")
Ops ==
    {Op("currentTenant", "current", TRUE, "Public", "shop"),
     Op("addMyDomain", "add", TRUE, "Authenticated", "shop"),
     Op("products", "products", TRUE, "", "shop"),
     Op("tenants", "tenants", TRUE, "SuperAdmin", "admin"),
     Op("tenant", "tenant", TRUE, "SuperAdmin", "admin"),
     Op("health", "health", FALSE, "", "admin")}

\* handler.name.startsWith(create | update | delete | add | remove | set)
IsMutation(op) == op.verb \in {"create", "update", "delete", "add", "remove", "set"}

\* (req as any).__tenant
NoMeta == [present |-> FALSE, id |-> NoId, slug |-> "", status |-> "",
           channelToken |-> NoToken]
Meta(r) == [present |-> TRUE, id |-> r.tenantId, slug |-> r.tenantSlug,
            status |-> r.tenantStatus, channelToken |-> r.channelToken]

\* The RequestContext that authentication stores on the request.
NoCtx == [present |-> FALSE, user |-> NoUser, channel |-> NoId, apiType |-> ""]

NoRequest ==
    [stage |-> "none", mw |-> "", host |-> Str("", FALSE, FALSE),
     hdr |-> NoToken, qry |-> NoToken, resolution |-> NotCalled,
     tenant |-> NoMeta, mismatch |-> FALSE, ctx |-> NoCtx, op |-> NoOp,
     outcome |-> "", by |-> ""]

\* Channel tokens a client can send: none, or the token of a tenant's channel.
ClientTokens == {NoToken} \cup {channels[tenants[i].channelId].token : i \in TenantIds}

\* channelService.getChannelFromToken; no token selects the default channel.
ChannelOfToken(token) ==
    IF token = NoToken THEN DefaultChannelId
    ELSE CHOOSE i \in 1..Len(channels) : channels[i].token = token

\* requestContext.userHasPermissions([Permission.SuperAdmin]) on a channel
HasSuperAdmin(user, channel) ==
    \E a \in admins : \E r \in roles :
        /\ a.email = user
        /\ r.code = a.role
        /\ r.code = SuperAdminRoleCode
        /\ channel \in r.channels

\* Session identities: nobody, the platform operator, a tenant administrator.
Users == {NoUser} \cup {a.email : a \in admins}

\* The response is sent; the request object is dropped.
Finish(r, outcome, by) ==
    [NoRequest EXCEPT !.stage = "done", !.outcome = outcome, !.by = by]

\* No request is being processed.
GateIdle == req.stage \in {"none", "done"}

\* A request arrives, with its Host and vendure-token headers.
NewRequest(host, hdr) ==
    /\ GateIdle
    /\ req' = [NoRequest EXCEPT !.stage = "stageA", !.host = host,
                                !.hdr = hdr]
    /\ UNCHANGED <<dirVars, auditLog, now, result, procVars, cache>>


(***************************************************************************)
(* Stage A: TenantContextMiddleware.use.  The repository holds two         *)
(* versions of the class; the plugin applies the one its build resolves.   *)
(***************************************************************************)
\* qtable.plugin.ts lines 110-162: the token is always overridden, and a host
\* that resolves to nothing is answered with 404.  dbFails: the Directory
\* read of this request fails, resolve rejects and the catch block logs.
TenantContextMiddleware_use(dbFails) ==
    /\ req.stage = "stageA"
    /\ UNCHANGED <<dirVars, auditLog, now, result, procVars>>
    /\ IF Bypassed(req.host)
       THEN /\ req' = [req EXCEPT !.stage = "auth", !.mw = "override"]
            /\ UNCHANGED cache
       ELSE IF dbFails /\ ReadsDirectory(req.host)
       THEN /\ req' = [req EXCEPT !.stage = "auth", !.mw = "override",
                                  !.resolution = Threw]
            /\ UNCHANGED cache
       ELSE LET resolution == Resolve(req.host)
            IN  /\ cache' = CacheAfterResolve(req.host)
                /\ IF resolution.found
                   THEN req' = [req EXCEPT
                          !.stage = "auth", !.mw = "override",
                          !.resolution = resolution,
                          !.mismatch = (req.hdr # NoToken
                                        /\ req.hdr # resolution.channelToken),
                          !.hdr = resolution.channelToken,
                          !.tenant = Meta(resolution)]
                   ELSE req' = [Finish(req, "404", "TenantContextMiddleware") EXCEPT
                          !.resolution = NotFound]

\* middleware/tenant-context.middleware.ts lines 44-77: a request that already
\* carries a vendure-token is passed on untouched, and a host that resolves to
\* nothing proceeds without a token.
TenantContextMiddleware_useKeep(dbFails) ==
    /\ req.stage = "stageA"
    /\ UNCHANGED <<dirVars, auditLog, now, result, procVars>>
    /\ IF Bypassed(req.host) \/ req.hdr # NoToken
       THEN /\ req' = [req EXCEPT !.stage = "auth", !.mw = "keep"]
            /\ UNCHANGED cache
       ELSE IF dbFails /\ ReadsDirectory(req.host)
       THEN /\ req' = [req EXCEPT !.stage = "auth", !.mw = "keep",
                                  !.resolution = Threw]
            /\ UNCHANGED cache
       ELSE LET resolution == Resolve(req.host)
            IN  /\ cache' = CacheAfterResolve(req.host)
                /\ IF resolution.found
                   THEN req' = [req EXCEPT
                          !.stage = "auth", !.mw = "keep",
                          !.resolution = resolution,
                          !.hdr = resolution.channelToken,
                          !.tenant = Meta(resolution)]
                   ELSE req' = [req EXCEPT
                          !.stage = "auth", !.mw = "keep",
                          !.resolution = resolution]

(***************************************************************************)
(* Authentication (collaborator): the framework reads the channel token    *)
(* from the query parameter, else from the header, binds the request       *)
(* context to that channel, and checks the operation's permissions.  The   *)
(* session user, the operation and the vendure-token query parameter of    *)
(* the request are first read here.                                        *)
(***************************************************************************)
AuthAllows(user, channel, op) ==
    CASE op.perms \in {"", "Public"} -> TRUE
      [] op.perms = "Authenticated" -> user # NoUser
      [] op.perms = "SuperAdmin" -> HasSuperAdmin(user, channel)

Authenticate(user, op, qry) ==
    /\ req.stage = "auth"
    /\ UNCHANGED <<dirVars, auditLog, now, result, procVars, cache>>
    /\ LET token == IF qry # NoToken THEN qry ELSE req.hdr
           channel == ChannelOfToken(token)
           ctx == [present |-> TRUE, user |-> user, channel |-> channel,
                   apiType |-> op.api]
           r == [req EXCEPT !.ctx = ctx, !.op = op, !.qry = qry]
       IN  IF AuthAllows(user, channel, op)
           THEN req' = [r EXCEPT !.stage = "tenantGuard"]
           ELSE req' = Finish(r, "Forbidden", "AuthGuard")

(***************************************************************************)
(* Stage B: the two guards, in the order the plugin registers them.        *)
(***************************************************************************)
\* TenantGuard.canActivate: TRUE when it throws ForbiddenError.
TenantGuardBlocks(r) ==
    /\ r.op.gql
    /\ r.tenant.present
    /\ r.ctx.present
    /\ r.tenant.status = SUSPENDED
    /\ r.ctx.apiType = "shop"
    /\ IsMutation(r.op)

TenantGuard_canActivate(auditFails) ==
    /\ req.stage = "tenantGuard"
    /\ UNCHANGED <<dirVars, now, result, procVars, cache>>
    /\ IF TenantGuardBlocks(req) /\ auditFails
       THEN /\ req' = Finish(req, "InternalServerError", "TenantGuard")
            /\ UNCHANGED auditLog
       ELSE IF TenantGuardBlocks(req)
       THEN /\ Len(auditLog) < MaxAudit
            /\ auditLog' = Append(auditLog,
                  AuditEntry(req.ctx, "SUSPENDED_TENANT_MUTATION_BLOCKED", "WARN",
                             req.tenant.id,
                             [mutation |-> req.op.name, slug |-> req.tenant.slug]))
            /\ req' = Finish(req, "Forbidden", "TenantGuard")
       ELSE /\ req' = [req EXCEPT !.stage = "defaultGuard"]
            /\ UNCHANGED auditLog

\* DefaultChannelGuard.canActivate: TRUE when it throws ForbiddenError.
DefaultChannelGuardNeverBlocks(r) == FALSE
DefaultChannelGuardBlocks(r) ==
    /\ r.op.gql
    /\ r.op.perms \notin {"", "Public"}
    /\ r.ctx.present
    /\ r.ctx.user # NoUser
    /\ r.ctx.channel = DefaultChannelId
    /\ ~HasSuperAdmin(r.ctx.user, r.ctx.channel)

DefaultChannelGuard_canActivate(auditFails) ==
    /\ req.stage = "defaultGuard"
    /\ UNCHANGED <<dirVars, now, result, procVars, cache>>
    /\ IF DefaultChannelGuardBlocks(req) /\ auditFails
       THEN /\ req' = Finish(req, "InternalServerError", "DefaultChannelGuard")
            /\ UNCHANGED auditLog
       ELSE IF DefaultChannelGuardBlocks(req)
       THEN /\ Len(auditLog) < MaxAudit
            /\ auditLog' = Append(auditLog,
                  AuditEntry(req.ctx, "DEFAULT_CHANNEL_ACCESS_BLOCKED", "CRITICAL",
                             NoId, [userId |-> req.ctx.user]))
            /\ req' = Finish(req, "Forbidden", "DefaultChannelGuard")
       ELSE /\ req' = Finish(req, "served", "")
            /\ UNCHANGED auditLog

(***************************************************************************)
(* Initial state: a fresh installation.                                    *)
(***************************************************************************)
Init ==
    /\ tenants = <<>>
    /\ domains = {}
    /\ nextDomainId = 1
    /\ channels = << [id |-> DefaultChannelId, code |-> <<"__default_channel__">>,
                     token |-> DefaultToken, seller |-> ""] >>
    /\ sellers = {}
    /\ roles = {[code |-> SuperAdminRoleCode, channels |-> {DefaultChannelId}]}
    /\ admins = {[email |-> SuperAdminUser, role |-> SuperAdminRoleCode]}
    /\ auditLog = <<>>
    /\ now = 0
    /\ result = NoResult
    /\ cs = [p \in Procs |-> IdleProc]
    /\ ad = [p \in Procs |-> IdleAdd]
    /\ job = IdleJob
    /\ cache = {}
    /\ req = NoRequest

Next ==
    \/ \E s \in Slugs, d \in DomainArgs : Provision(s, d)
    \/ \E s \in Slugs, c \in 1..(Len(channels) + 1) : Create(s, c)
    \/ \E id \in 1..(Len(tenants) + 1), st \in StatusArgs : ChangeStatus(AdminCtx, id, st)

Spec == Init /\ [][Next]_vars

\* Domain management on top of provisioning (no status changes).
NextDom ==
    \/ \E s \in Slugs, d \in DomainArgs : Provision(s, d)
    \/ \E s \in Slugs, c \in 1..(Len(channels) + 1) : Create(s, c)
    \/ \E id \in 1..(Len(tenants) + 1), d \in DomainArgs, p \in BOOLEAN : AddDomain(id, d, p)
    \/ \E id \in TenantIds, did \in 1..MaxDomainId : RemoveDomain(id, did)

SpecDom == Init /\ [][NextDom]_vars

\* Two request handlers changing tenant status, their steps interleaved.
NextConc ==
    \/ \E s \in Slugs, d \in DomainArgs : Provision(s, d)
    \/ \E p \in Procs, id \in 1..(Len(tenants) + 1), st \in StatusArgs : CsBegin(p, id, st)
    \/ \E p \in Procs : CsCommit(p)

SpecConc == Init /\ [][NextConc]_vars

\* An update and a status change in two request handlers, their steps
\* interleaved.
NextConcUpd ==
    \/ \E s \in Slugs : ~SlugTaken(s) /\ (s = "beta" => SlugTaken("alpha"))
                          /\ Provision(s, ShopDomain(s))
    \/ \E p \in Procs, id \in 1..(Len(tenants) + 1), st \in StatusArgs : CsBegin(p, id, st)
    \/ \E p \in Procs : CsCommit(p)
    \/ \E p \in Procs, id \in 1..(Len(tenants) + 1), plan \in Plans : UpBegin(p, id, plan)
    \/ \E p \in Procs : UpCommit(p)

SpecConcUpd == Init /\ [][NextConcUpd]_vars

\* Two request handlers binding domains, their steps interleaved.
NextConcDom ==
    \/ \E p \in Procs, s \in Slugs, d \in DomainArgs : ProvBegin(p, s, d)
    \/ \E p \in Procs : ProvCommit(p)
    \/ \E p \in Procs, id \in 1..(Len(tenants) + 1), d \in DomainArgs, b \in BOOLEAN :
          AdBegin(p, id, d, b)
    \/ \E p \in Procs : AdCommit(p)

SpecConcDom == Init /\ [][NextConcDom]_vars

\* Requests through the gate; between two requests the operator provisions
\* tenants (alpha first), suspends and reactivates them (calls the lifecycle
\* accepts), and time passes.
NextGate ==
    \/ \E s \in Slugs : GateIdle /\ ~SlugTaken(s) /\ (s = "beta" => SlugTaken("alpha"))
                          /\ Provision(s, ShopDomain(s))
    \/ \E id \in TenantIds, st \in {ACTIVE, SUSPENDED} :
          GateIdle /\ IsAllowed(tenants[id].status, st) /\ ChangeStatus(AdminCtx, id, st)
    \/ GateIdle /\ Tick
    \/ \E h \in Hosts, hdr \in ClientTokens : NewRequest(h, hdr)
    \/ \E dbFails \in BOOLEAN : TenantContextMiddleware_use(dbFails)
    \/ \E dbFails \in BOOLEAN : TenantContextMiddleware_useKeep(dbFails)
    \/ \E u \in Users, op \in Ops, qry \in ClientTokens : Authenticate(u, op, qry)
    \/ TenantGuard_canActivate(FALSE)
    \/ DefaultChannelGuard_canActivate(FALSE)

SpecGate == Init /\ [][NextGate]_vars

\* The purge schedule: the operator provisions tenants (alpha first) and
\* requests their deletion, grace periods pass, and the job runs.
NextPurge ==
    \/ \E s \in Slugs : ~SlugTaken(s) /\ (s = "beta" => SlugTaken("alpha"))
                          /\ ProvisionCapped(MaxPurgeAudit, s, ShopDomain(s))
    \/ \E id \in TenantIds :
          /\ IsAllowed(tenants[id].status, PENDING_DELETION)
          /\ ChangeStatusCapped(MaxPurgeAudit, AdminCtx, id, PENDING_DELETION)
    \/ PeriodTick
    \/ \E f \in [TenantIds -> Faults] : PurgeRun(f)

SpecPurge == Init /\ [][NextPurge]_vars

\* Everything that touches the audit table: provisioning, deletion requests,
\* purge runs, requests refused by the guards, and audit queries.
NextAudit ==
    \/ \E s \in Slugs : GateIdle /\ ~SlugTaken(s) /\ (s = "beta" => SlugTaken("alpha"))
                          /\ ProvisionCapped(MaxPurgeAudit, s, ShopDomain(s))
    \/ \E id \in TenantIds :
          /\ GateIdle
          /\ IsAllowed(tenants[id].status, PENDING_DELETION)
          /\ ChangeStatusCapped(MaxPurgeAudit, AdminCtx, id, PENDING_DELETION)
    \/ GateIdle /\ PeriodTick
    \/ GateIdle /\ PurgeRun([i \in TenantIds |-> "none"])
    \/ \E take \in {1, 25} : GateIdle /\ AuditService_findAll(take)
    \/ \E h \in {x \in Hosts : ~x.upper} : NewRequest(h, NoToken)
    \/ TenantContextMiddleware_use(FALSE)
    \/ \E u \in Users \ {NoUser}, op \in {o \in Ops : o.perms \notin {"", "Public"}} :
          Authenticate(u, op, NoToken)
    \/ TenantGuard_canActivate(FALSE)
    \/ DefaultChannelGuard_canActivate(FALSE)

SpecAudit == Init /\ [][NextAudit]_vars

\* The resolver cache: requests fill it, time ages it, invalidate empties it.
NextCache ==
    \/ \E s \in Slugs : ~SlugTaken(s) /\ (s = "beta" => SlugTaken("alpha"))
                          /\ Provision(s, ShopDomain(s))
    \/ Tick
    \/ \E h \in Hosts : NewRequest(h, NoToken)
    \/ \E dbFails \in BOOLEAN : TenantContextMiddleware_use(dbFails)
    \/ \E op \in {o \in Ops : o.perms = "Public"} : Authenticate(NoUser, op, NoToken)
    \/ TenantGuard_canActivate(FALSE)
    \/ DefaultChannelGuard_canActivate(FALSE)
    \/ \E h \in Hosts : Invalidate(h)

SpecCache == Init /\ [][NextCache]_vars

\* Domains change hands between two tenants while requests are resolved.
NextMove ==
    \/ \E s \in Slugs : GateIdle /\ ~SlugTaken(s) /\ (s = "beta" => SlugTaken("alpha"))
                          /\ Provision(s, ShopDomain(s))
    \/ \E id \in TenantIds, did \in 1..MaxDomainId : GateIdle /\ RemoveDomain(id, did)
    \/ \E id \in TenantIds, d \in DomainArgs : GateIdle /\ AddDomain(id, d, FALSE)
    \/ GateIdle /\ Tick
    \/ \E h \in {x \in Hosts : ~x.upper} : NewRequest(h, NoToken)
    \/ TenantContextMiddleware_use(FALSE)
    \/ \E op \in {o \in Ops : o.perms = "Public"} : Authenticate(NoUser, op, NoToken)
    \/ TenantGuard_canActivate(FALSE)
    \/ DefaultChannelGuard_canActivate(FALSE)

SpecMove == Init /\ [][NextMove]_vars

\* Custom domains as an operator may type them, and requests that name them.
CustomDomains == {Str("gamma.shop", TRUE, FALSE), Str("gamma.shop", FALSE, FALSE)}

NextCustom ==
    \/ \E s \in Slugs : GateIdle /\ ~SlugTaken(s) /\ (s = "beta" => SlugTaken("alpha"))
                          /\ Provision(s, ShopDomain(s))
    \/ \E id \in TenantIds, st \in {ACTIVE, SUSPENDED} :
          GateIdle /\ IsAllowed(tenants[id].status, st) /\ ChangeStatus(AdminCtx, id, st)
    \/ \E id \in TenantIds, d \in CustomDomains : GateIdle /\ AddDomain(id, d, FALSE)
    \/ \E h \in CustomDomains : NewRequest(h, NoToken)
    \/ TenantContextMiddleware_use(FALSE)
    \/ \E op \in {o \in Ops : o.perms = "Public"} : Authenticate(NoUser, op, NoToken)
    \/ TenantGuard_canActivate(FALSE)
    \/ DefaultChannelGuard_canActivate(FALSE)

SpecCustom == Init /\ [][NextCustom]_vars

\* The purge job step by step, while the operator requests deletions and
\* restores tenants and grace periods pass between two runs.
NextJob ==
    \/ \E s \in Slugs : ~SlugTaken(s) /\ (s = "beta" => SlugTaken("alpha"))
                          /\ Provision(s, ShopDomain(s))
    \/ \E id \in TenantIds, st \in {PENDING_DELETION, ACTIVE} :
          /\ IsAllowed(tenants[id].status, st)
          /\ ChangeStatus(AdminCtx, id, st)
    \/ job.pc = "idle" /\ PeriodTick
    \/ Job_findPending
    \/ Job_autoDelete
    \/ Job_processExpired

SpecJob == Init /\ [][NextJob]_vars

\* The purge schedule while the operator also adds domains.
NextPurgeDom ==
    \/ \E s \in Slugs : ~SlugTaken(s) /\ (s = "beta" => SlugTaken("alpha"))
                          /\ ProvisionCapped(MaxPurgeAudit, s, ShopDomain(s))
    \/ \E id \in TenantIds :
          /\ IsAllowed(tenants[id].status, PENDING_DELETION)
          /\ ChangeStatusCapped(MaxPurgeAudit, AdminCtx, id, PENDING_DELETION)
    \/ PeriodTick
    \/ PurgeRun([i \in TenantIds |-> "none"])
    \/ \E id \in TenantIds, d \in DomainArgs : AddDomain(id, d, FALSE)

SpecPurgeDom == Init /\ [][NextPurgeDom]_vars

\* One provisioning request at a time, statement by statement.
NextSteps ==
    \/ \E slug \in Slugs, d \in DomainArgs : Prov_findBySlug(slug, d)
    \/ Prov_createSeller
    \/ Prov_createChannel
    \/ Prov_assignRoleToChannel
    \/ Prov_createRole
    \/ Prov_createAdministrator
    \/ Prov_createTenant
    \/ Prov_addDomain
    \/ Prov_changeStatus("toProvisioning", PROVISIONING)
    \/ Prov_changeStatus("toTrial", TRIAL)
    \/ Prov_publishCreated

SpecSteps == Init /\ [][NextSteps]_vars

\* Status changes and guarded requests while audit inserts may fail.
NextAuditFail ==
    \/ \E s \in Slugs : GateIdle /\ ~SlugTaken(s) /\ (s = "beta" => SlugTaken("alpha"))
                          /\ Provision(s, ShopDomain(s))
    \/ \E id \in TenantIds, st \in {ACTIVE, SUSPENDED}, auditFails \in BOOLEAN :
          /\ GateIdle
          /\ IsAllowed(tenants[id].status, st)
          /\ ChangeStatusWith(MaxAudit, auditFails, AdminCtx, id, st)
    \/ \E h \in Hosts : NewRequest(h, NoToken)
    \/ TenantContextMiddleware_use(FALSE)
    \/ \E u \in Users, op \in Ops : Authenticate(u, op, NoToken)
    \/ \E auditFails \in BOOLEAN : TenantGuard_canActivate(auditFails)
    \/ \E auditFails \in BOOLEAN : DefaultChannelGuard_canActivate(auditFails)

SpecAuditFail == Init /\ [][NextAuditFail]_vars

\* The lifecycle of provisioned tenants while time passes.
NextLife ==
    \/ \E s \in Slugs : ~SlugTaken(s) /\ (s = "beta" => SlugTaken("alpha"))
                          /\ Provision(s, ShopDomain(s))
    \/ \E id \in 1..(Len(tenants) + 1), st \in StatusArgs : ChangeStatus(AdminCtx, id, st)
    \/ Tick

SpecLife == Init /\ [][NextLife]_vars

(***************************************************************************)
(* C1.  changeStatus follows the transition table of the lifecycle, whose  *)
(* row for Deleted is {Purged}: a call whose pair (from, to) is in the     *)
(* table succeeds, and every other call, to = from included, is rejected   *)
(* with a validation error that names from, to and exactly the allowed     *)
(* targets of from.  Stated for the calls an API client can make (to is a  *)
(* member of the status enum).                                             *)
(***************************************************************************)
TableTargets(from) ==
    CASE from = REQUESTED -> {PROVISIONING}
      [] from = PROVISIONING -> {TRIAL, ACTIVE}
      [] from = TRIAL -> {ACTIVE, SUSPENDED, PENDING_DELETION}
      [] from = ACTIVE -> {SUSPENDED, PENDING_DELETION}
      [] from = SUSPENDED -> {ACTIVE, PENDING_DELETION}
      [] from = PENDING_DELETION -> {ACTIVE, DELETED}
      [] from = DELETED -> {"PURGED"}
      [] OTHER -> {}

Range(seq) == {seq[i] : i \in 1..Len(seq)}

C1_TransitionTable ==
    (/\ result.op = "changeStatus"
     /\ result.error # "Tenant not found"
     /\ result.to \in TenantStatus)
    => IF result.to \in TableTargets(result.from)
       THEN /\ result.ok
            /\ tenants[result.id].status = result.to
       ELSE /\ ~result.ok
            /\ result.error = "Invalid status transition"
            /\ Range(result.allowed) = TableTargets(result.from)

(***************************************************************************)
(* C9.  No two distinct tenant records reference the same channel, after   *)
(* any sequence of provision and create calls.                             *)
(***************************************************************************)
C9_ChannelExclusive ==
    \A i, j \in TenantIds : i # j => tenants[i].channelId # tenants[j].channelId

\* create() was given the channel of an existing tenant and was refused.
C9_Witness ==
    /\ result.op = "create"
    /\ result.error = "QueryFailedError"
    /\ Len(tenants) >= 1

(***************************************************************************)
(* C8.  Two changeStatus calls on one tenant, their steps interleaved:     *)
(* every status value written for the tenant follows the one it replaces   *)
(* by a transition of the table, so two calls that read the same status    *)
(* cannot both succeed when one after the other would be illegal.          *)
(***************************************************************************)
C8_Linearized ==
    [][\A i \in TenantIds :
          tenants'[i].status # tenants[i].status
          => tenants'[i].status \in TableTargets(tenants[i].status)]_vars

(***************************************************************************)
(* C10.  Each domain string is bound to at most one tenant, also when the  *)
(* uniqueness lookups of two addDomain or provision calls both run before  *)
(* either insert.                                                          *)
(***************************************************************************)
C10_DomainUnique ==
    \A r1, r2 \in domains : r1.domain = r2.domain => r1 = r2

\* An addDomain call passed its lookup, and its insert was then refused by the
\* unique index because a concurrent call had inserted the domain meanwhile.
C10_Witness ==
    /\ result.op = "addDomain"
    /\ result.error = "QueryFailedError"
    /\ HasTenant(result.id)
    /\ domains # {}

(***************************************************************************)
(* Stage A finishes its work on a request: it passes the request on, or    *)
(* answers it.                                                             *)
(***************************************************************************)
StageADone == req.stage = "stageA" /\ req'.stage # "stageA"

\* The tenant rows that own the request's normalized hostname.
HostTenants(host) == {tenants[r.tenantId] : r \in FindDomain(Normalize(host))}

(***************************************************************************)
(* C2.  For every request whose normalized hostname is not bypassed and    *)
(* resolves to a tenant, the vendure-token header that authentication      *)
(* sees after Stage A is that tenant's channel token, whatever header the  *)
(* client sent.                                                            *)
(***************************************************************************)
C2_TokenOverridden ==
    [][(/\ StageADone
        /\ ~Bypassed(req.host)
        /\ ~req'.resolution.error
        /\ Resolve(req.host).found)
       => (/\ req'.stage = "auth"
           /\ req'.hdr = Resolve(req.host).channelToken)]_vars

(***************************************************************************)
(* C3.  For every request whose hostname is not bypassed and for which     *)
(* resolve returns NotFound, Stage A answers 404 and does not pass the     *)
(* request on to authentication.                                           *)
(***************************************************************************)
C3_NotFoundIs404 ==
    [][(/\ StageADone
        /\ ~Bypassed(req.host)
        /\ ~req'.resolution.error
        /\ ~Resolve(req.host).found)
       => (/\ req'.stage = "done"
           /\ req'.outcome = "404")]_vars

(***************************************************************************)
(* C4.  For every hostname bound to a tenant whose status is not Trial or  *)
(* Active, resolve returns NotFound, as for an unregistered hostname,      *)
(* whatever resolve calls were made before the tenant entered that status. *)
(***************************************************************************)
C4_NoStatusLeak ==
    [][(/\ StageADone
        /\ req'.resolution.called
        /\ ~req'.resolution.error
        /\ \E t \in HostTenants(req.host) : ~Operational(t))
       => req'.resolution = NotFound]_vars

(***************************************************************************)
(* C5.  A GraphQL request that carries tenant metadata and whose request   *)
(* context is bound to another channel than the resolved tenant's is       *)
(* rejected by the guards: it is never served.                             *)
(***************************************************************************)
C5_ChannelMismatchRejected ==
    [][(/\ req.stage = "defaultGuard"
        /\ req.op.gql
        /\ req.tenant.present
        /\ req.ctx.channel # ChannelOfToken(req.tenant.channelToken))
       => req'.outcome # "served"]_vars

SuspendedHost(host) ==
    /\ ~Bypassed(host)
    /\ \E t \in HostTenants(host) : t.status = SUSPENDED

\* The response to the request in flight is decided in this step.
Answered == req.stage \notin {"none", "done"} /\ req'.stage = "done"

C7_SuspendedMutationsBlocked ==
    [][(/\ Answered
        /\ SuspendedHost(req.host)
        /\ req'.by # "AuthGuard"
        /\ (req.stage # "stageA"
              => req.mw = "override" /\ req.op.gql /\ req.op.api = "shop"))
       => \/ /\ ~IsMutation(req.op)
             /\ req'.outcome = "served"
          \/ /\ IsMutation(req.op)
             /\ req'.outcome = "Forbidden"
             /\ auditLog' = Append(auditLog,
                   AuditEntry(req.ctx, "SUSPENDED_TENANT_MUTATION_BLOCKED", "WARN",
                              req.tenant.id,
                              [mutation |-> req.op.name, slug |-> req.tenant.slug]))]_vars

(***************************************************************************)
(* C11.  When changeStatus has moved a tenant into Suspended, the resolver *)
(* cache holds no entry that resolve would still serve for any of that     *)
(* tenant's domains: the first resolve after the transition does not       *)
(* return the tenant's credential from the cache.                          *)
(***************************************************************************)
C11_InvalidatedOnSuspend ==
    \A r \in domains :
        (HasTenant(r.tenantId) /\ tenants[r.tenantId].status = SUSPENDED)
        => CacheHit(r.domain) = {}

(***************************************************************************)
(* C12.  resolve never returns a tenant's credential more than the cache   *)
(* TTL (60 s) after that tenant left the statuses Trial and Active.        *)
(***************************************************************************)
\* When the tenant left Trial/Active: changeStatus stamps suspendedAt on
\* entering SUSPENDED and deletedAt on entering PENDING_DELETION.
LeftOperationalAt(t) ==
    IF t.suspendedAt # NullTime THEN t.suspendedAt ELSE t.deletedAt

C13_ProvisionRoundTrip ==
    [][\A s \in Slugs, d \in DomainArgs :
         (Provision(s, d) /\ result'.ok)
         => LET found == {i \in 1..Len(tenants') : tenants'[i].slug = s}
            IN  /\ Cardinality(found) = 1
                /\ \A i \in found :
                     /\ tenants'[i].status = TRIAL
                     /\ {[domain |-> r.domain, isPrimary |-> r.isPrimary] :
                           r \in {x \in domains' : x.tenantId = i}}
                        = {[domain |-> d, isPrimary |-> TRUE]}
                     /\ Cardinality({x \in domains' : x.tenantId = i}) = 1
                /\ result'.channelToken # NoToken]_vars

\* A provision call has just succeeded.
C13_Witness ==
    /\ result.op = "provision"
    /\ result.ok
    /\ HasTenant(result.id)
    /\ tenants[result.id].status = TRIAL
    /\ result.channelToken = channels[tenants[result.id].channelId].token

(***************************************************************************)
(* C14.  provision with a slug that an existing tenant uses is rejected    *)
(* with an 'already exists' error before anything is created: no Seller,   *)
(* Channel, Role, Administrator, Tenant or TenantDomain row is written.    *)
(***************************************************************************)
C14_DuplicateSlugRejected ==
    [][\A s \in Slugs, d \in DomainArgs :
         (Provision(s, d) /\ \E i \in TenantIds : tenants[i].slug = s)
         => /\ ~result'.ok
            /\ result'.error = "Tenant already exists"
            /\ UNCHANGED <<tenants, domains, nextDomainId, channels, sellers,
                           roles, admins, auditLog>>]_vars

\* provision has just been refused for a slug that a tenant holds.
C14_Witness ==
    /\ result.op = "provision"
    /\ result.error = "Tenant already exists"
    /\ tenants # <<>>

AuditCount(log, action, severity, id) ==
    Cardinality({k \in 1..Len(log) : /\ log[k].action = action
                                     /\ log[k].severity = severity
                                     /\ log[k].tenantId = id})

PastGrace(t, days) ==
    t.deletedAt # NullTime /\ now - t.deletedAt > days * DaySeconds

C16_AutoDeleteAfterGrace ==
    [][\A f \in [TenantIds -> Faults] :
         PurgeRun(f)
         => \A i \in TenantIds :
              LET due == /\ tenants[i].status = PENDING_DELETION
                         /\ PastGrace(tenants[i], 30)
                  before == AuditCount(auditLog, "TENANT_AUTO_DELETED", "WARN", i)
                  after == AuditCount(auditLog', "TENANT_AUTO_DELETED", "WARN", i)
              IN  /\ (due /\ f[i] = "none")
                     => tenants'[i].status = DELETED /\ after = before + 1
                  /\ (~due /\ tenants[i].status # DELETED)
                     => tenants'[i] = tenants[i] /\ after = before]_vars

\* A run has deleted one tenant while another is PendingDeletion and exactly
\* at the end of its grace period.
C16_Witness ==
    /\ result.op = "purge"
    /\ \E i, j \in TenantIds :
         /\ tenants[i].status = DELETED
         /\ AuditCount(auditLog, "TENANT_AUTO_DELETED", "WARN", i) = 1
         /\ tenants[j].status = PENDING_DELETION
         /\ now - tenants[j].deletedAt = 30 * DaySeconds

(***************************************************************************)
(* C17.  For a tenant that is Deleted with deletedAt more than 90 days in  *)
(* the past, a run of the purge job removes all its domains and then moves *)
(* it to Purged: afterwards its status is the Purged member of the status  *)
(* enumeration and it has no domains.                                      *)
(***************************************************************************)
C17_PurgedAfterRun ==
    [][\A f \in [TenantIds -> Faults] :
         PurgeRun(f)
         => \A i \in TenantIds :
              (/\ tenants[i].status = DELETED
               /\ PastGrace(tenants[i], 90)
               /\ f[i] = "none")
              => /\ tenants'[i].status = "PURGED"
                 /\ \A r \in domains' : r.tenantId # i]_vars

(***************************************************************************)
(* C18.  In both phases of a run a failure on one tenant is caught: the    *)
(* tenants recorded as failed are among those whose step failed, every     *)
(* other selected tenant is still processed, and the second phase runs     *)
(* whatever happened in the first.                                         *)
(***************************************************************************)
C18_FailureIsolated ==
    [][\A f \in [TenantIds -> Faults] :
         PurgeRun(f)
         => /\ \A k \in 1..Len(result'.failed) : f[result'.failed[k]] # "none"
            /\ \A i \in TenantIds :
                 f[i] = "none"
                 => /\ (tenants[i].status = PENDING_DELETION /\ PastGrace(tenants[i], 30))
                       => /\ tenants'[i].status = DELETED
                          /\ AuditCount(auditLog', "TENANT_AUTO_DELETED", "WARN", i)
                             = AuditCount(auditLog, "TENANT_AUTO_DELETED", "WARN", i) + 1
                    /\ (tenants[i].status \in {PENDING_DELETION, DELETED}
                        /\ PastGrace(tenants[i], 90))
                       => /\ \A r \in domains' : r.tenantId # i
                          /\ AuditCount(auditLog', "TENANT_PURGED", "CRITICAL", i)
                             = AuditCount(auditLog, "TENANT_PURGED", "CRITICAL", i) + 1]_vars

\* A run in which the iteration of the first tenant failed and the tenant
\* after it was processed to the end.
C18_Witness ==
    /\ result.op = "purge"
    /\ result.failed = <<1>>
    /\ auditLog # <<>>
    /\ auditLog[Len(auditLog)].tenantId = 2
    /\ auditLog[Len(auditLog)].action \in {"TENANT_AUTO_DELETED", "TENANT_PURGED"}

(***************************************************************************)
(* C19.  Whenever a request to a hostname that resolves to a tenant        *)
(* carries a client-supplied credential different from the resolved one,   *)
(* the Audit Log receives an entry of severity WARN that describes the     *)
(* token mismatch with both the supplied and the resolved credential.      *)
(***************************************************************************)
C19_MismatchAudited ==
    [][(/\ req.stage = "stageA"
        /\ req'.stage # "stageA"
        /\ ~Bypassed(req.host)
        /\ Resolve(req.host).found
        /\ req.hdr # NoToken
        /\ req.hdr # Resolve(req.host).channelToken)
       => \E k \in 1..Len(auditLog') :
            /\ auditLog'[k].severity = "WARN"
            /\ {"supplied", "resolved"} \subseteq DOMAIN auditLog'[k].metadata
            /\ auditLog'[k].metadata.supplied = req.hdr
            /\ auditLog'[k].metadata.resolved = Resolve(req.host).channelToken]_vars

(***************************************************************************)
(* C20.  When an authenticated principal scoped to one tenant asks for the *)
(* `tenant` record of another tenant by id, the outcome is "not found",    *)
(* as for an id that does not exist, and never a "forbidden" error.        *)
(***************************************************************************)
C20_CrossTenantNotFound ==
    [][\A u \in Users, op \in Ops, qry \in ClientTokens :
         (/\ Authenticate(u, op, qry)
          /\ op.name = "tenant"
          /\ u \in Slugs
          /\ \E i \in TenantIds : tenants[i].slug # u
          /\ req'.ctx.channel # DefaultChannelId)
         => req'.outcome # "Forbidden"]_vars

(***************************************************************************)
(* C21.  A successful changeStatus into Suspended sets suspendedAt to the  *)
(* current time, into PendingDeletion sets deletedAt to the current time,  *)
(* into Active or Trial clears both, and into any other status             *)
(* (Provisioning, Deleted, Purged) leaves both timestamps as they were.    *)
(***************************************************************************)
C21_Timestamps ==
    [][\A id \in TenantIds, st \in StatusArgs :
         (ChangeStatus(AdminCtx, id, st) /\ result'.ok)
         => LET old == tenants[id]
                new == tenants'[id]
            IN  CASE st = SUSPENDED -> new.suspendedAt = now
                  [] st = PENDING_DELETION -> new.deletedAt = now
                  [] st \in {ACTIVE, TRIAL} ->
                       new.suspendedAt = NullTime /\ new.deletedAt = NullTime
                  [] OTHER -> /\ new.suspendedAt = old.suspendedAt
                              /\ new.deletedAt = old.deletedAt]_vars

\* A tenant has just been moved to Deleted, later than its deletion was
\* requested: deletedAt still holds the time of the request.
C21_Witness ==
    /\ result.op = "changeStatus"
    /\ result.ok
    /\ result.to = DELETED
    /\ tenants[result.id].deletedAt # NullTime
    /\ tenants[result.id].deletedAt < now

(***************************************************************************)
(* C22.  When resolve fails with an infrastructure error, Stage A logs it  *)
(* and passes the request on with no tenant metadata and no credential     *)
(* bound by the gate, and the request is then not served under the default *)
(* (aggregate) channel.  Stated for principals without the SuperAdmin      *)
(* permission.                                                             *)
(***************************************************************************)
C22_ErrorNotDefaultScope ==
    [][/\ (StageADone /\ req'.resolution.error)
          => (/\ req'.stage = "auth"
              /\ ~req'.tenant.present
              /\ req'.hdr = req.hdr)
       /\ (/\ Answered
           /\ req.resolution.error
           /\ req.ctx.present
           /\ req.ctx.channel = DefaultChannelId
           /\ ~HasSuperAdmin(req.ctx.user, req.ctx.channel))
          => req'.outcome # "served"]_vars

(***************************************************************************)
(* C24.  The audit log is append-only: whatever operation runs (status     *)
(* change, provisioning, guard rejection, purge run, audit query), every   *)
(* entry written before it is still there afterwards, at the same place    *)
(* and with the same action, severity, tenant, actor and metadata.         *)
(***************************************************************************)
C24_AuditAppendOnly ==
    [][/\ Len(auditLog') >= Len(auditLog)
       /\ \A k \in 1..Len(auditLog) : auditLog'[k] = auditLog[k]]_vars

\* An audit query has run on a log that holds an entry of a purge run and an
\* entry of a guard.
C24_Witness ==
    /\ result.op = "auditLogs"
    /\ \E k \in 1..Len(auditLog) : auditLog[k].action = "TENANT_AUTO_DELETED"
    /\ \E k \in 1..Len(auditLog) : auditLog[k].action = "DEFAULT_CHANNEL_ACCESS_BLOCKED"

(***************************************************************************)
(* C25.  For every domain d and every state of the resolver cache, calling *)
(* invalidate(d) twice in a row leaves the cache as calling it once does:  *)
(* after one call, a second call changes nothing.                          *)
(***************************************************************************)
C25_InvalidateIdempotent ==
    [][\A d \in Hosts : Invalidate(d) => Invalidated(cache', d) = cache']_vars

\* invalidate has emptied the cache that the request in flight had filled.
C25_Witness ==
    /\ result.op = "invalidate"
    /\ cache = {}
    /\ req.stage = "auth"
    /\ req.resolution.found

C27_UpdateKeepsStatus ==
    [][\A p \in Procs :
         UpCommit(p)
         => \A i \in TenantIds :
              /\ tenants'[i].status = tenants[i].status
              /\ tenants'[i].slug = tenants[i].slug
              /\ tenants'[i].channelId = tenants[i].channelId
              /\ tenants'[i].suspendedAt = tenants[i].suspendedAt
              /\ tenants'[i].deletedAt = tenants[i].deletedAt]_vars

(***************************************************************************)
(* C28.  Every transition of a tenant into Deleted, made by the purge job  *)
(* or by a changeStatus call, writes an audit entry of severity WARN for   *)
(* the tenant, and every transition into Purged writes one of severity     *)
(* CRITICAL.                                                               *)
(***************************************************************************)
WrittenFor(i, severity) ==
    \E k \in (Len(auditLog) + 1)..Len(auditLog') :
        auditLog'[k].tenantId = i /\ auditLog'[k].severity = severity

C28_DeletionAudited ==
    [][\A i \in TenantIds :
         /\ (tenants[i].status # DELETED /\ tenants'[i].status = DELETED)
            => WrittenFor(i, "WARN")
         /\ (tenants[i].status # "PURGED" /\ tenants'[i].status = "PURGED")
            => WrittenFor(i, "CRITICAL")]_vars

(***************************************************************************)
(* C29.  Every successful changeStatus publishes exactly one               *)
(* TenantStatusChanged event, which carries the old and the new status and *)
(* is published once the new status is persisted; it also publishes        *)
(* TenantSuspended exactly when the new status is Suspended and            *)
(* TenantDeleted exactly when the new status is Deleted.                   *)
(***************************************************************************)
EventCount(events, type) ==
    Cardinality({k \in 1..Len(events) : events[k].type = type})

C30_OnePrimaryDomain ==
    \A i \in TenantIds :
        tenants[i].status = TRIAL
        => Cardinality({r \in domains : r.tenantId = i /\ r.isPrimary}) = 1

C32_AuditFailureHarmless ==
    [][/\ \A id \in TenantIds, st \in TenantStatus :
            (/\ IsAllowed(tenants[id].status, st)
             /\ ChangeStatusWith(MaxAudit, TRUE, AdminCtx, id, st))
            => (result'.ok /\ tenants'[id].status = st)
       /\ (req.stage = "tenantGuard" /\ TenantGuardBlocks(req) /\ req'.stage = "done")
          => req'.outcome = "Forbidden"
       /\ (req.stage = "defaultGuard" /\ DefaultChannelGuardBlocks(req)
           /\ req'.stage = "done")
          => req'.outcome = "Forbidden"]_vars

(***************************************************************************)
(* C33.  A tenant is purged only after it has spent at least 90 days in    *)
(* status Deleted; in particular one run of the purge job never takes a    *)
(* tenant from PendingDeletion through Deleted to the purge: a tenant for  *)
(* which a run writes TENANT_PURGED was already Deleted when the run       *)
(* started.                                                                *)
(***************************************************************************)
C33_PurgeOnlyAfterDeleted ==
    [][\A f \in [TenantIds -> Faults] :
         PurgeRun(f)
         => \A i \in TenantIds :
              AuditCount(auditLog', "TENANT_PURGED", "CRITICAL", i)
                > AuditCount(auditLog, "TENANT_PURGED", "CRITICAL", i)
              => tenants[i].status = DELETED]_vars

(***************************************************************************)
(* C34.  provision performs its steps in this order: the SuperAdmin role   *)
(* is assigned to the new channel before the tenant-admin role and the     *)
(* administrator are created; the Tenant record is created only after the  *)
(* channel, the role and the administrator exist; the primary domain is    *)
(* created only after the Tenant record; TenantCreated is published only   *)
(* after the tenant has reached Trial through Requested, Provisioning,     *)
(* Trial.                                                                  *)
(***************************************************************************)
HasTransition(log, tid, from, to) ==
    \E k \in 1..Len(log) : log[k] = StatusChangedEntry(AdminCtx, tid, from, to)

C35_SuperAdminUseLogged ==
    [][(/\ req.stage = "defaultGuard"
        /\ req'.stage = "done"
        /\ req.op.gql
        /\ req.op.perms \notin {"", "Public"}
        /\ req.ctx.present
        /\ req.ctx.user # NoUser
        /\ req.ctx.channel = DefaultChannelId
        /\ HasSuperAdmin(req.ctx.user, req.ctx.channel)
        /\ req'.outcome = "served")
       => /\ Len(auditLog') = Len(auditLog) + 1
          /\ auditLog'[Len(auditLog')].userId = req.ctx.user]_vars

(***************************************************************************)
(* C36.  A request is never bound to the credential of a tenant that does  *)
(* not currently own the request's hostname in the Directory: whenever the *)
(* middleware binds a request to a channel token, a domain record of that  *)
(* hostname belongs to the tenant of that channel.                         *)
(***************************************************************************)
C36_BoundToCurrentOwner ==
    [][(/\ req.stage = "stageA"
        /\ req'.stage = "auth"
        /\ req'.resolution.found)
       => \E r \in domains :
            /\ r.domain = Normalize(req.host)
            /\ HasTenant(r.tenantId)
            /\ channels[tenants[r.tenantId].channelId].token = req'.hdr]_vars

(***************************************************************************)
(* C37.  invalidate(h) removes the cache entry under the key resolve(h)    *)
(* reads and writes: for every hostname h, also one with upper-case        *)
(* letters or a port suffix, right after invalidate(h) no live cache entry *)
(* answers resolve(h), which therefore queries the Directory.              *)
(***************************************************************************)
C37_InvalidateUsesResolveKey ==
    [][\A h \in Hosts :
         Invalidate(h)
         => {e \in cache' : e.key = Normalize(h) /\ e.expiresAt > now'} = {}]_vars

(***************************************************************************)
(* C38.  For every tenant in Trial or Active and every domain string d     *)
(* that addDomain accepts, also one with upper-case letters: once          *)
(* addDomain(tenant, d) has succeeded, resolve(d) returns that tenant's    *)
(* credential.                                                             *)
(***************************************************************************)
C38_AddedDomainResolves ==
    [][\A id \in TenantIds, d \in CustomDomains :
         (/\ AddDomain(id, d, FALSE)
          /\ result'.ok
          /\ Operational(tenants[id]))
         => /\ Resolve(d)'.found
            /\ Resolve(d)'.tenantId = id
            /\ Resolve(d)'.channelToken = channels[tenants[id].channelId].token]_vars

(***************************************************************************)
(* C39.  The purge job moves a tenant to Deleted only if, at the moment of *)
(* the transition, the tenant's current deletedAt is older than the grace  *)
(* period: a tenant restored and marked for deletion again after the job   *)
(* selected it is not auto-deleted with its fresh deletedAt.               *)
(***************************************************************************)
C39_AutoDeleteChecksCurrentDeletedAt ==
    [][\A i \in TenantIds :
         (/\ job.pc = "pending"
          /\ tenants[i].status # DELETED
          /\ tenants'[i].status = DELETED)
         => PastGrace(tenants[i], DELETION_GRACE_DAYS)]_vars

(***************************************************************************)
(* C40.  In every reachable state a purged tenant, one the purge job has   *)
(* processed to the end and recorded with TENANT_PURGED, has no domain     *)
(* records: once a tenant is purged no operation, addDomain in particular, *)
(* binds a domain to it.                                                   *)
(***************************************************************************)
C40_PurgedHasNoDomains ==
    \A i \in TenantIds :
        AuditCount(auditLog, "TENANT_PURGED", "CRITICAL", i) > 0
        => \A r \in domains : r.tenantId # i

====
